---- MODULE Spec2Model ----
(***************************************************************************)
(* Model of trading_bot.py: calculate_technical_indicators (SMA, RSI,      *)
(* MACD), trading_strategy (rule overwrite and diff) and execute_orders    *)
(* (the day-by-day portfolio loop).                                        *)
(*                                                                         *)
(* A pandas column is a function over the positions 0..N-1 (the .iloc      *)
(* positions of the source); index labels are the positions themselves     *)
(* (unique, ascending).  A float is an exact extended rational             *)
(* [n |-> numerator, d |-> denominator] in lowest terms with d >= 0:       *)
(* d = 0 encodes the IEEE special values, 0/0 = NaN, 1/0 = +inf and        *)
(* -1/0 = -inf.  Rounding error of binary floats is not modelled.          *)
(***************************************************************************)
EXTENDS Integers, Sequences, FiniteSets, TLC

VARIABLES pc, data, signals, portfolio, i, initial_capital

vars == <<pc, data, signals, portfolio, i, initial_capital>>

----------------------------------------------------------------------------
(* Float arithmetic with NaN and infinities, as numpy/pandas evaluate it.   *)

Abs(x) == IF x < 0 THEN -x ELSE x

Sgn(x) == IF x > 0 THEN 1 ELSE IF x < 0 THEN -1 ELSE 0

RECURSIVE GCD(_, _)
GCD(a, b) == IF b = 0 THEN a ELSE GCD(b, a % b)

LCM(a, b) == (a \div GCD(a, b)) * b

Norm(n, d) ==
    IF d = 0 THEN [n |-> Sgn(n), d |-> 0]
    ELSE LET g == GCD(Abs(n), Abs(d))
         IN  [n |-> Sgn(d) * Sgn(n) * (Abs(n) \div g), d |-> Abs(d) \div g]

Float(k) == [n |-> k, d |-> 1]

NaN == [n |-> 0, d |-> 0]

IsNaN(a) == a.d = 0 /\ a.n = 0

IsInf(a) == a.d = 0 /\ a.n # 0

FNeg(a) == [n |-> -a.n, d |-> a.d]

FAdd(a, b) ==
    IF IsNaN(a) \/ IsNaN(b) THEN NaN
    ELSE IF IsInf(a) THEN (IF IsInf(b) /\ b.n # a.n THEN NaN ELSE a)
    ELSE IF IsInf(b) THEN b
    ELSE LET l == LCM(a.d, b.d)
         IN  Norm(a.n * (l \div a.d) + b.n * (l \div b.d), l)

FSub(a, b) == FAdd(a, FNeg(b))

FMul(a, b) ==
    IF IsNaN(a) \/ IsNaN(b) THEN NaN
    ELSE IF a.d = 0 \/ b.d = 0 THEN Norm(Sgn(a.n) * Sgn(b.n), 0)
    ELSE LET g1 == GCD(Abs(a.n), b.d)
             g2 == GCD(Abs(b.n), a.d)
         IN  Norm((a.n \div g1) * (b.n \div g2), (a.d \div g2) * (b.d \div g1))

\* x / 0 is +-inf, 0 / 0 is NaN, x / inf is 0 (the sign of a zero is not kept).
FDiv(a, b) ==
    IF IsNaN(a) \/ IsNaN(b) THEN NaN
    ELSE IF IsInf(b) THEN (IF IsInf(a) THEN NaN ELSE Float(0))
    ELSE IF b.n = 0 THEN Norm(Sgn(a.n), 0)
    ELSE FMul(a, Norm(b.d, b.n))

\* Every comparison with NaN is False.
FGt(a, b) ==
    /\ ~IsNaN(a)
    /\ ~IsNaN(b)
    /\ IF a.d = 0 \/ b.d = 0
       THEN (IF a.d = 0 THEN 2 * a.n ELSE Sgn(a.n))
              > (IF b.d = 0 THEN 2 * b.n ELSE Sgn(b.n))
       ELSE LET l == LCM(a.d, b.d)
            IN  a.n * (l \div a.d) > b.n * (l \div b.d)

FLt(a, b) == FGt(b, a)

FEq(a, b) == ~IsNaN(a) /\ ~IsNaN(b) /\ a = b

----------------------------------------------------------------------------
(* Columns.                                                                 *)

Length(col) == Cardinality(DOMAIN col)

\* Mutant of SeriesDiff: the difference taken the wrong way round.
SeriesDiff_Reversed(x) ==
    [k \in DOMAIN x |-> IF k = 0 THEN NaN ELSE FSub(x[k - 1], x[k])]

\* pandas Series.diff(): NaN at position 0, then x[k] - x[k-1].
SeriesDiff(x) ==
    [k \in DOMAIN x |-> IF k = 0 THEN NaN ELSE FSub(x[k], x[k - 1])]

\* x[lo] + ... + x[hi], summed by halves (exact arithmetic is associative;
\* halving keeps the evaluation shallow).
RECURSIVE RangeSum(_, _, _)
RangeSum(x, lo, hi) ==
    IF hi < lo THEN Float(0)
    ELSE IF lo = hi THEN x[lo]
    ELSE LET mid == (lo + hi) \div 2
         IN  FAdd(RangeSum(x, lo, mid), RangeSum(x, mid + 1, hi))

\* Series.rolling(window=w).mean(): NaN until the window is full.
RollingMean(x, w) ==
    [k \in DOMAIN x |->
        IF k < w - 1 THEN NaN ELSE FDiv(RangeSum(x, k - w + 1, k), Float(w))]

\* One recursive update of Series.ewm(span=span, adjust=False).mean().
EwmUpdate(prev, cur, span) ==
    LET alpha == Norm(2, span + 1)
    IN  FAdd(FMul(FSub(Float(1), alpha), prev), FMul(alpha, cur))

\* acc extended by the updates for positions Len(acc) .. stop - 1.
RECURSIVE EwmFold(_, _, _, _)
EwmFold(x, span, acc, stop) ==
    IF Len(acc) >= stop \/ Len(acc) >= Length(x) THEN acc
    ELSE EwmFold(x, span,
                 Append(acc, EwmUpdate(acc[Len(acc)], x[Len(acc)], span)),
                 stop)

\* The same left-to-right fold, taken eight positions at a time (this only
\* keeps the evaluation shallow).
RECURSIVE EwmBlocks(_, _, _)
EwmBlocks(x, span, acc) ==
    IF Len(acc) >= Length(x) THEN acc
    ELSE EwmBlocks(x, span, EwmFold(x, span, acc, Len(acc) + 8))

\* Series.ewm(span=span, adjust=False).mean(): seeded by the first value.
EwmMean(x, span) ==
    IF Length(x) = 0 THEN x
    ELSE LET acc == EwmBlocks(x, span, <<x[0]>>)
         IN  [k \in DOMAIN x |-> acc[k + 1]]

----------------------------------------------------------------------------
(* Program constants.                                                       *)

SMAShortWindow == 20

SMALongWindow == 50

RSIWindow == 14

MACDShortWindow == 12

MACDLongWindow == 26

MACDSignalWindow == 9

RSIOverbought == 70

DefaultCapital == 100000

----------------------------------------------------------------------------
(* calculate_RSI, calculate_MACD, calculate_technical_indicators.           *)

\* delta.where(delta > 0, 0)
Gain(close) ==
    LET delta == SeriesDiff(close)
    IN  [k \in DOMAIN close |->
            IF FGt(delta[k], Float(0)) THEN delta[k] ELSE Float(0)]

\* -delta.where(delta < 0, 0)
Loss(close) ==
    LET delta == SeriesDiff(close)
    IN  [k \in DOMAIN close |->
            FNeg(IF FLt(delta[k], Float(0)) THEN delta[k] ELSE Float(0))]

\* RSI = 100 - (100 / (1 + RS))
RSIFromRS(RS) == FSub(Float(100), FDiv(Float(100), FAdd(Float(1), RS)))

\* Mutant of calculate_RSI: a division guarded against a zero mean loss, which
\* yields NaN instead of letting gain / 0 saturate.
calculate_RSI_GuardedDivision(close, window) ==
    LET gain == RollingMean(Gain(close), window)
        loss == RollingMean(Loss(close), window)
    IN  [k \in DOMAIN close |->
            RSIFromRS(IF FEq(loss[k], Float(0)) THEN NaN
                      ELSE FDiv(gain[k], loss[k]))]

calculate_RSI(close, window) ==
    LET gain == RollingMean(Gain(close), window)
        loss == RollingMean(Loss(close), window)
    IN  [k \in DOMAIN close |-> RSIFromRS(FDiv(gain[k], loss[k]))]

\* Mutant of calculate_MACD: the signal line smooths the closes instead of the
\* MACD line.
calculate_MACD_SignalOfClose(close, short_window, long_window, signal_window) ==
    LET short_ema == EwmMean(close, short_window)
        long_ema  == EwmMean(close, long_window)
        macd      == [k \in DOMAIN close |-> FSub(short_ema[k], long_ema[k])]
        signal    == EwmMean(close, signal_window)
    IN  [macd |-> macd, signal |-> signal,
         histogram |-> [k \in DOMAIN close |-> FSub(macd[k], signal[k])]]

calculate_MACD(close, short_window, long_window, signal_window) ==
    LET short_ema == EwmMean(close, short_window)
        long_ema  == EwmMean(close, long_window)
        macd      == [k \in DOMAIN close |-> FSub(short_ema[k], long_ema[k])]
        signal    == EwmMean(macd, signal_window)
    IN  [macd |-> macd, signal |-> signal,
         histogram |-> [k \in DOMAIN close |-> FSub(macd[k], signal[k])]]

\* The frame that `data` names after the call: the caller's own frame with the
\* indicator columns assigned into it.
calculate_technical_indicators(d) ==
    LET m == calculate_MACD(d.Close, MACDShortWindow, MACDLongWindow,
                            MACDSignalWindow)
    IN  [Close       |-> d.Close,
         SMA_20      |-> RollingMean(d.Close, SMAShortWindow),
         SMA_50      |-> RollingMean(d.Close, SMALongWindow),
         RSI         |-> calculate_RSI(d.Close, RSIWindow),
         MACD        |-> m.macd,
         MACD_signal |-> m.signal,
         MACD_hist   |-> m.histogram]

----------------------------------------------------------------------------
(* trading_strategy.                                                        *)

\* signals.loc[mask, 'signal'] = value
SetWhere(col, mask, value) ==
    [k \in DOMAIN col |-> IF mask[k] THEN value ELSE col[k]]

\* Mutant of StrategySignal: the RSI rule applied last, so that it wins.
StrategySignal_RSILast(d) ==
    LET idx == DOMAIN d.Close
        s0  == [k \in idx |-> Float(0)]
        s1  == SetWhere(s0, [k \in idx |-> FGt(d.SMA_20[k], d.SMA_50[k])],
                        Float(1))
        s2  == SetWhere(s1, [k \in idx |-> FGt(d.MACD[k], d.MACD_signal[k])],
                        Float(1))
        s3  == SetWhere(s2, [k \in idx |-> FLt(d.MACD[k], d.MACD_signal[k])],
                        Float(-1))
    IN  SetWhere(s3, [k \in idx |-> FGt(d.RSI[k], Float(RSIOverbought))],
                 Float(-1))

StrategySignal(d) ==
    LET idx == DOMAIN d.Close
        s0  == [k \in idx |-> Float(0)]
        s1  == SetWhere(s0, [k \in idx |-> FGt(d.SMA_20[k], d.SMA_50[k])],
                        Float(1))
        s2  == SetWhere(s1, [k \in idx |-> FGt(d.RSI[k], Float(RSIOverbought))],
                        Float(-1))
        s3  == SetWhere(s2, [k \in idx |-> FGt(d.MACD[k], d.MACD_signal[k])],
                        Float(1))
    IN  SetWhere(s3, [k \in idx |-> FLt(d.MACD[k], d.MACD_signal[k])],
                 Float(-1))

trading_strategy(d) ==
    LET signal == StrategySignal(d)
    IN  [signal |-> signal, positions |-> SeriesDiff(signal)]

----------------------------------------------------------------------------
(* execute_orders.                                                          *)

\* Lines 118-121: every row starts as (initial_capital, 0.0, initial_capital).
NewPortfolio(sig, capital) ==
    [cash     |-> [k \in DOMAIN sig.signal |-> Float(capital)],
     holdings |-> [k \in DOMAIN sig.signal |-> Float(0)],
     total    |-> [k \in DOMAIN sig.signal |-> Float(capital)]]

\* Lines 124-130: the buy / sell branches of iteration k write row k+1.
ApplyOrder(pf, close, positions, k) ==
    IF FEq(positions[k], Float(1))
    THEN [pf EXCEPT !.cash[k + 1] = Float(0),
                    !.holdings[k + 1] = FDiv(pf.cash[k], close[k])]
    ELSE IF FEq(positions[k], Float(-1))
    THEN [pf EXCEPT !.cash[k + 1] = FMul(pf.holdings[k], close[k]),
                    !.holdings[k + 1] = Float(0)]
    ELSE pf

\* Mutant of Valuation: row k+1 marked to its own close.
Valuation_AtOwnClose(pf, close, k) ==
    FAdd(pf.cash[k + 1], FMul(pf.holdings[k + 1], close[k + 1]))

\* Line 131: row k+1 is valued at the close of step k.
Valuation(pf, close, k) ==
    FAdd(pf.cash[k + 1], FMul(pf.holdings[k + 1], close[k]))

\* One iteration of the loop of lines 123-131.
OrderStep(pf, close, positions, k) ==
    LET traded == ApplyOrder(pf, close, positions, k)
    IN  [traded EXCEPT !.total[k + 1] = Valuation(traded, close, k)]

----------------------------------------------------------------------------
(* Inputs.                                                                  *)

\* Longest constant run of closes that starts a price series.
ScenarioLen == 60

\* Number of free closes that may follow the constant run.
MaxTail == 1

\* Longest series handed directly to execute_orders.
MaxLen == 4

\* Longest indicator fixture handed directly to trading_strategy.
MaxFixtureLen == 2

Prices == {Float(100), Float(101)}

Column(n, values) == [0..(n - 1) -> values]

\* c repeated run times, followed by tail.
RunThenTail(c, run, tail) ==
    [k \in 0..(run + Length(tail) - 1) |->
        IF k < run THEN c ELSE tail[k - run]]

PriceSeries ==
    {RunThenTail(c, run, tail) :
        c \in Prices, run \in 0..ScenarioLen,
        tail \in UNION {Column(n, Prices) : n \in 0..MaxTail}}

SignalValues == {Float(-1), Float(0), Float(1)}

InitialCapitals == {-1, 0, DefaultCapital}

\* One row of an indicator fixture: every outcome of each threshold test,
\* undefined operands included.
FixtureRows ==
    {[SMA_20 |-> sma[1], SMA_50 |-> sma[2], RSI |-> rsi,
      MACD |-> macd[1], MACD_signal |-> macd[2]] :
        sma \in {<<Float(2), Float(1)>>, <<Float(1), Float(2)>>,
                 <<Float(1), Float(1)>>, <<Float(2), NaN>>, <<NaN, NaN>>},
        rsi \in {NaN, Float(RSIOverbought), Float(RSIOverbought + 1)},
        macd \in {<<Float(1), Float(0)>>, <<Float(0), Float(1)>>,
                  <<Float(0), Float(0)>>}}

FixtureFrame(rows) ==
    [Close       |-> [k \in DOMAIN rows |-> Float(100)],
     SMA_20      |-> [k \in DOMAIN rows |-> rows[k].SMA_20],
     SMA_50      |-> [k \in DOMAIN rows |-> rows[k].SMA_50],
     RSI         |-> [k \in DOMAIN rows |-> rows[k].RSI],
     MACD        |-> [k \in DOMAIN rows |-> rows[k].MACD],
     MACD_signal |-> [k \in DOMAIN rows |-> rows[k].MACD_signal],
     MACD_hist   |-> [k \in DOMAIN rows |->
                        FSub(rows[k].MACD, rows[k].MACD_signal)]]

----------------------------------------------------------------------------
(* The run of the script (lines 140-143), one action per call and one per   *)
(* iteration of the loop of execute_orders.                                 *)

\* data = download_data(...): a frame with the Close column.
Init ==
    /\ pc = "indicators"
    /\ data \in {[Close |-> c] : c \in PriceSeries}
    /\ signals = <<>>
    /\ portfolio = <<>>
    /\ i = 0
    /\ initial_capital = DefaultCapital

\* trading_strategy called on an indicator fixture.
InitStrategy ==
    /\ pc = "strategy"
    /\ data \in {FixtureFrame(rows) :
                    rows \in UNION {Column(n, FixtureRows) :
                                        n \in 0..MaxFixtureLen}}
    /\ signals = <<>>
    /\ portfolio = <<>>
    /\ i = 0
    /\ initial_capital = DefaultCapital

\* execute_orders called on any closes, any signals and any capital.
InitExecute ==
    /\ pc = "execute"
    /\ data \in {[Close |-> c] :
                    c \in UNION {Column(n, Prices) : n \in 0..MaxLen}}
    /\ signals \in {[signal |-> s, positions |-> SeriesDiff(s)] :
                    s \in UNION {Column(n, SignalValues) : n \in 0..MaxLen}}
    /\ portfolio = <<>>
    /\ i = 0
    /\ initial_capital \in InitialCapitals

CalculateTechnicalIndicators ==
    /\ pc = "indicators"
    /\ data' = calculate_technical_indicators(data)
    /\ pc' = "strategy"
    /\ UNCHANGED <<signals, portfolio, i, initial_capital>>

TradingStrategy ==
    /\ pc = "strategy"
    /\ signals' = trading_strategy(data)
    /\ pc' = "execute"
    /\ UNCHANGED <<data, portfolio, i, initial_capital>>

ExecuteOrdersSetup ==
    /\ pc = "execute"
    /\ portfolio' = NewPortfolio(signals, initial_capital)
    /\ i' = 0
    /\ pc' = "loop"
    /\ UNCHANGED <<data, signals, initial_capital>>

\* data.index[i+1] raises IndexError when data is too short; the right-hand
\* sides are evaluated first, so nothing has been written by then.
ExecuteOrdersStep ==
    /\ pc = "loop"
    /\ i < Length(signals.signal) - 1
    /\ IF i + 1 \in DOMAIN data.Close
       THEN /\ portfolio' = OrderStep(portfolio, data.Close,
                                      signals.positions, i)
            /\ i' = i + 1
            /\ pc' = "loop"
       ELSE /\ portfolio' = <<>>
            /\ i' = i
            /\ pc' = "IndexError"
    /\ UNCHANGED <<data, signals, initial_capital>>

ExecuteOrdersReturn ==
    /\ pc = "loop"
    /\ ~(i < Length(signals.signal) - 1)
    /\ pc' = "returned"
    /\ UNCHANGED <<data, signals, portfolio, i, initial_capital>>

Next ==
    \/ CalculateTechnicalIndicators
    \/ TradingStrategy
    \/ ExecuteOrdersSetup
    \/ ExecuteOrdersStep
    \/ ExecuteOrdersReturn

Spec == Init /\ [][Next]_vars

NextStrategy == TradingStrategy

SpecStrategy == InitStrategy /\ [][NextStrategy]_vars

NextExecute ==
    \/ ExecuteOrdersSetup
    \/ ExecuteOrdersStep
    \/ ExecuteOrdersReturn

SpecExecute == InitExecute /\ [][NextExecute]_vars

----------------------------------------------------------------------------
(* Properties.                                                              *)

Close == data.Close

\* execute_orders was called with a positive capital and aligned series.
ValidOrderInputs ==
    initial_capital > 0 /\ Length(data.Close) = Length(signals.signal)

\* The portfolio exists and transitions 0 -> 1, ..., i-1 -> i have been made.
InLoop == pc \in {"loop", "returned"}

IsTrigger(k) ==
    FEq(signals.positions[k], Float(1)) \/ FEq(signals.positions[k], Float(-1))

SameAccount(k) ==
    /\ portfolio.cash[k + 1] = portfolio.cash[k]
    /\ portfolio.holdings[k + 1] = portfolio.holdings[k]

\* C1: on valid inputs, every transition k -> k+1 whose position_change[k] is
\* neither +1 nor -1 carries the account forward: cash[k+1] = cash[k] and
\* holdings[k+1] = holdings[k].
C1_CarryForward ==
    (InLoop /\ ValidOrderInputs) =>
        \A k \in 0..(i - 1) : ~IsTrigger(k) => SameAccount(k)

\* C2: on valid inputs, a +1 trigger while shares are held, or a -1 trigger
\* while nothing is held, leaves the account as it was.
C2_GuardedTriggers ==
    (InLoop /\ ValidOrderInputs) =>
        \A k \in 0..(i - 1) :
            \/ /\ FEq(signals.positions[k], Float(1))
               /\ FGt(portfolio.holdings[k], Float(0))
            \/ /\ FEq(signals.positions[k], Float(-1))
               /\ FEq(portfolio.holdings[k], Float(0))
            => SameAccount(k)

\* C3: for every transition k -> k+1 made so far, whatever branch was taken,
\* total[k+1] = cash[k+1] + holdings[k+1] * close[k], and total[0] is the
\* initial capital.
C3_Valuation ==
    InLoop =>
        /\ 0 \in DOMAIN portfolio.total
              => portfolio.total[0] = Float(initial_capital)
        /\ \A k \in 0..(i - 1) :
              portfolio.total[k + 1]
                = FAdd(portfolio.cash[k + 1],
                       FMul(portfolio.holdings[k + 1], Close[k]))

\* A buy and a later sale have both been applied, at different closes.
C3_Witness ==
    /\ pc = "returned"
    /\ ValidOrderInputs
    /\ \E k \in 0..(i - 1) : \E m \in 0..(i - 1) :
          /\ k < m
          /\ FGt(portfolio.holdings[k + 1], Float(0))
          /\ FEq(signals.positions[m], Float(-1))
          /\ FGt(portfolio.cash[m + 1], Float(initial_capital))

\* The signal the rules give at step k when read by priority: the MACD
\* comparison first, then RSI, then the SMA comparison, else 0.
PrioritySignal(k) ==
    IF FLt(data.MACD[k], data.MACD_signal[k]) THEN Float(-1)
    ELSE IF FGt(data.MACD[k], data.MACD_signal[k]) THEN Float(1)
    ELSE IF FGt(data.RSI[k], Float(RSIOverbought)) THEN Float(-1)
    ELSE IF FGt(data.SMA_20[k], data.SMA_50[k]) THEN Float(1)
    ELSE Float(0)

\* C4: every signal is -1, 0 or +1; it is -1 when MACD < MACD_signal and +1
\* when MACD > MACD_signal whatever SMA and RSI are, and only when the two are
\* equal is it -1 if RSI > 70, else +1 if SMA_20 > SMA_50, else 0.
C4_RulePriority ==
    pc = "execute" =>
        \A k \in DOMAIN signals.signal :
            /\ signals.signal[k] \in SignalValues
            /\ signals.signal[k] = PrioritySignal(k)

\* The rules conflict: one step where SMA says +1, RSI says -1 and MACD says
\* +1, and one where MACD is silent and RSI overrides SMA.
C4_Witness ==
    /\ pc = "execute"
    /\ \E k \in DOMAIN signals.signal :
          /\ FGt(data.SMA_20[k], data.SMA_50[k])
          /\ FGt(data.RSI[k], Float(RSIOverbought))
          /\ FGt(data.MACD[k], data.MACD_signal[k])
          /\ signals.signal[k] = Float(1)
    /\ \E k \in DOMAIN signals.signal :
          /\ FGt(data.SMA_20[k], data.SMA_50[k])
          /\ FGt(data.RSI[k], Float(RSIOverbought))
          /\ FEq(data.MACD[k], data.MACD_signal[k])
          /\ signals.signal[k] = Float(-1)

AnyUndefined(k) ==
    \/ IsNaN(data.SMA_20[k])
    \/ IsNaN(data.SMA_50[k])
    \/ IsNaN(data.RSI[k])
    \/ IsNaN(data.MACD[k])
    \/ IsNaN(data.MACD_signal[k])

\* C5: at every step where an input indicator is undefined, the signal is 0.
C5_UndefinedIsNeutral ==
    pc \in {"execute", "loop", "returned"} =>
        \A k \in DOMAIN signals.signal :
            AnyUndefined(k) => signals.signal[k] = Float(0)

RECURSIVE SumRange(_, _, _)
SumRange(x, lo, hi) ==
    IF hi < lo THEN Float(0) ELSE FAdd(SumRange(x, lo, hi - 1), x[hi])

DiffOfSignal(k) == FSub(signals.signal[k], signals.signal[k - 1])

C7_RejectsInvalidParameters ==
    pc = "returned" => ValidOrderInputs

MeanGain == RollingMean(Gain(Close), RSIWindow)

MeanLoss == RollingMean(Loss(Close), RSIWindow)

InUnitRange(x) == ~FLt(x, Float(0)) /\ ~FGt(x, Float(100))

IsConstant(col) == \A k \in DOMAIN col : col[k] = col[0]

\* C9: on a constant close series, MACD = MACD_signal = 0 and signal = 0 at
\* every step, no position_change is a trigger, and cash = initial capital,
\* holdings = 0 and total = initial capital at every step.
C9_ConstantSeries ==
    IsConstant(Close) =>
        /\ pc # "indicators" =>
              \A k \in DOMAIN Close :
                  data.MACD[k] = Float(0) /\ data.MACD_signal[k] = Float(0)
        /\ pc \in {"execute", "loop", "returned"} =>
              \A k \in DOMAIN Close :
                  signals.signal[k] = Float(0) /\ ~IsTrigger(k)
        /\ pc \in {"loop", "returned"} =>
              \A k \in DOMAIN Close :
                  /\ portfolio.cash[k] = Float(initial_capital)
                  /\ portfolio.holdings[k] = Float(0)
                  /\ portfolio.total[k] = Float(initial_capital)

\* The whole pipeline has run over 60 equal closes.
C9_Witness ==
    /\ pc = "returned"
    /\ IsConstant(Close)
    /\ Length(Close) = ScenarioLen
    /\ i = ScenarioLen - 1

\* C10: no stage changes its input: calculate_technical_indicators and
\* trading_strategy leave the caller's frame (columns and values) as it was,
\* and execute_orders leaves the frame and the signals as they were.
C10_NoStageMutatesInput ==
    [][/\ data' = data
       /\ pc \in {"execute", "loop"} => signals' = signals]_vars

====
